---- MODULE Spec2Model ----
(***************************************************************************)
(* Register diversion tracker of lib/codegen/src/regalloc/diversion.rs.    *)
(*                                                                         *)
(* The tracker is a Vec<Diversion>; every method of RegDiversions is a     *)
(* pure operator over that vector, and every public mutating entry point   *)
(* is one action.  debug_assert! is compiled in only when the crate is     *)
(* built with debug assertions, so the build profile is part of the state. *)
(***************************************************************************)
EXTENDS Integers, Sequences, FiniteSets

\* ---------------------------------------------------------------- bounds
\* Register units of the target.
NumRegs == 2

\* v1 and v2 of tests::inserts: a value and another value.
Values == {1, 2}

RegUnits == 1..NumRegs

\* One stack slot: a place for regspill to go to and regfill to come from.
StackSlots == {1}

\* ------------------------------------------------------------- locations
\* ir::ValueLoc: Unassigned | Reg(RegUnit) | Stack(StackSlot)
Unassigned == [kind |-> "Unassigned", id |-> 0]

Reg(r) == [kind |-> "Reg", id |-> r]

Stack(s) == [kind |-> "Stack", id |-> s]

ValueLocs == {Unassigned} \cup {Reg(r) : r \in RegUnits} \cup {Stack(s) : s \in StackSlots}

is_assigned(loc) == loc.kind # "Unassigned"

AssignedLocs == {l \in ValueLocs : is_assigned(l)}

\* Option<T>
None == <<>>

Some(x) == <<x>>

\* ------------------------------------------------------------ operations
\* Outcome of a call: the vector afterwards, whether the call panicked, and
\* the returned value (None for the unit type).
Ok(cur, r) == [current |-> cur, panicked |-> FALSE, ret |-> r]

\* A failed assertion unwinds out of the call before any store.
Panic(cur) == [current |-> cur, panicked |-> TRUE, ret |-> None]

\* Slip: the fields of the record are initialised the wrong way round.
DiversionNew_swapped(value, from, to) == [value |-> value, from |-> to, to |-> from]

\* Diversion::new.  Its debug_assert! repeats the one divert has already
\* passed when it is reached from divert.
DiversionNew(value, from, to) == [value |-> value, from |-> from, to |-> to]

\* self.current.iter().position(|d| d.value == value); 0 stands for None,
\* indices are 1-based.
position(cur, value) ==
    IF \E i \in 1..Len(cur) : cur[i].value = value
    THEN CHOOSE i \in 1..Len(cur) :
            /\ cur[i].value = value
            /\ \A j \in 1..(i - 1) : cur[j].value # value
    ELSE 0

\* Slip: Vec::truncate(i) in place of swap_remove(i), which also drops every
\* record behind element i.
swap_remove_truncates(cur, i) == SubSeq(cur, 1, i - 1)

\* Slip: Vec::remove(i) in place of swap_remove(i), which shifts every record
\* behind element i one place to the front.
swap_remove_shifts(cur, i) ==
    [j \in 1..(Len(cur) - 1) |-> IF j < i THEN cur[j] ELSE cur[j + 1]]

\* Vec::swap_remove(i): the last element takes the place of element i.
swap_remove(cur, i) ==
    [j \in 1..(Len(cur) - 1) |-> IF j = i THEN cur[Len(cur)] ELSE cur[j]]

\* RegDiversions::new
new == <<>>

\* Slip: Vec::pop in place of Vec::clear, which discards one record only.
clear_pops(cur) == Ok(SubSeq(cur, 1, Len(cur) - 1), None)

\* RegDiversions::clear
clear(cur) == Ok(<<>>, None)

\* Slip: the length is compared the wrong way (len() <= 1).
is_empty_off_by_one(cur) == Len(cur) <= 1

\* RegDiversions::is_empty
is_empty(cur) == Len(cur) = 0

\* RegDiversions::diversion: the first record for value, as an Option.
diversion(cur, value) ==
    IF position(cur, value) # 0 THEN Some(cur[position(cur, value)]) ELSE None

\* RegDiversions::all
all(cur) == cur

\* Slip: get answers with the original location of a diverted value.
get_returns_from(cur, value, locations) ==
    IF diversion(cur, value) # None
    THEN diversion(cur, value)[1].from
    ELSE locations[value]

\* RegDiversions::get
get(cur, value, locations) ==
    IF diversion(cur, value) # None
    THEN diversion(cur, value)[1].to
    ELSE locations[value]

\* ValueLoc::unwrap_reg: the register unit, or a panic (None here) for any
\* other kind of location.
unwrap_reg(loc) == IF loc.kind = "Reg" THEN Some(loc.id) ELSE None

\* ValueLoc::unwrap_stack: the stack slot, or a panic (None here) for any
\* other kind of location.
unwrap_stack(loc) == IF loc.kind = "Stack" THEN Some(loc.id) ELSE None

\* Slip: reg reads the assignment map and never looks at the diversions.
reg_ignores_diversion(cur, value, locations) ==
    IF unwrap_reg(locations[value]) = None
    THEN Panic(cur)
    ELSE Ok(cur, unwrap_reg(locations[value])[1])

\* RegDiversions::reg
reg(cur, value, locations) ==
    IF unwrap_reg(get(cur, value, locations)) = None
    THEN Panic(cur)
    ELSE Ok(cur, unwrap_reg(get(cur, value, locations))[1])

\* RegDiversions::stack
stack(cur, value, locations) ==
    IF unwrap_stack(get(cur, value, locations)) = None
    THEN Panic(cur)
    ELSE Ok(cur, unwrap_stack(get(cur, value, locations))[1])

\* Slip: a later move of a diverted value is pushed as a record of its own
\* instead of being folded into the record the value already has.
divert_pushes_again(cur, dbg, value, from, to) ==
    IF dbg /\ ~(is_assigned(from) /\ is_assigned(to))
    THEN Panic(cur)
    ELSE LET i == position(cur, value) IN
         IF i # 0 /\ dbg /\ cur[i].to # from
         THEN Panic(cur)
         ELSE IF i # 0 /\ cur[i].from = to
         THEN Ok(swap_remove(cur, i), None)
         ELSE Ok(Append(cur, DiversionNew(value, from, to)), None)

\* Slip: the store of line 99 replaces the whole record by the latest move,
\* so the record keeps the last hop and forgets the original location.
divert_keeps_last_hop(cur, dbg, value, from, to) ==
    IF dbg /\ ~(is_assigned(from) /\ is_assigned(to))
    THEN Panic(cur)
    ELSE LET i == position(cur, value) IN
         IF i # 0
         THEN IF dbg /\ cur[i].to # from
              THEN Panic(cur)
              ELSE IF cur[i].from # to
                   THEN Ok([cur EXCEPT ![i] = DiversionNew(value, from, to)], None)
                   ELSE Ok(swap_remove(cur, i), None)
         ELSE Ok(Append(cur, DiversionNew(value, from, to)), None)

\* Slip: the chain assertion of line 97 is left out.
divert_unchecked_chain(cur, dbg, value, from, to) ==
    IF dbg /\ ~(is_assigned(from) /\ is_assigned(to))
    THEN Panic(cur)
    ELSE LET i == position(cur, value) IN
         IF i # 0
         THEN IF cur[i].from # to
              THEN Ok([cur EXCEPT ![i].to = to], None)
              ELSE Ok(swap_remove(cur, i), None)
         ELSE Ok(Append(cur, DiversionNew(value, from, to)), None)

\* Slip: the assertion of line 95 is left out.
divert_unchecked_locations(cur, dbg, value, from, to) ==
    LET i == position(cur, value) IN
    IF i # 0
    THEN IF dbg /\ cur[i].to # from
         THEN Panic(cur)
         ELSE IF cur[i].from # to
              THEN Ok([cur EXCEPT ![i].to = to], None)
              ELSE Ok(swap_remove(cur, i), None)
    ELSE Ok(Append(cur, DiversionNew(value, from, to)), None)

\* Slip: line 98 compares the record's from with the move's from.
divert_closes_on_from(cur, dbg, value, from, to) ==
    IF dbg /\ ~(is_assigned(from) /\ is_assigned(to))
    THEN Panic(cur)
    ELSE LET i == position(cur, value) IN
         IF i # 0
         THEN IF dbg /\ cur[i].to # from
              THEN Panic(cur)
              ELSE IF cur[i].from # from
                   THEN Ok([cur EXCEPT ![i].to = to], None)
                   ELSE Ok(swap_remove(cur, i), None)
         ELSE Ok(Append(cur, DiversionNew(value, from, to)), None)

\* RegDiversions::divert
divert(cur, dbg, value, from, to) ==
    IF dbg /\ ~(is_assigned(from) /\ is_assigned(to))
    THEN Panic(cur)
    ELSE LET i == position(cur, value) IN
         IF i # 0
         THEN IF dbg /\ cur[i].to # from
              THEN Panic(cur)
              ELSE IF cur[i].from # to
                   THEN Ok([cur EXCEPT ![i].to = to], None)
                   ELSE Ok(swap_remove(cur, i), None)
         ELSE Ok(Append(cur, DiversionNew(value, from, to)), None)

\* RegDiversions::regmove
regmove(cur, dbg, value, from, to) == divert(cur, dbg, value, Reg(from), Reg(to))

\* RegDiversions::regspill
regspill(cur, dbg, value, from, to) == divert(cur, dbg, value, Reg(from), Stack(to))

\* RegDiversions::regfill
regfill(cur, dbg, value, from, to) == divert(cur, dbg, value, Stack(from), Reg(to))

\* ir::InstructionData, reduced to the fields apply reads.  The opcode
\* determines the format; copy, spill and fill are ordinary Unary
\* instructions that are not diversions.
DiversionOpcodes == {"Regmove", "Regspill", "Regfill"}

OtherOpcodes == {"Copy", "Spill", "Fill"}

Inst(format, opcode, arg, src, dst) ==
    [format |-> format, opcode |-> opcode, arg |-> arg, src |-> src, dst |-> dst]

Insts ==
    {Inst("RegMove", "Regmove", v, s, d) : v \in Values, s \in RegUnits, d \in RegUnits}
    \cup {Inst("RegSpill", "Regspill", v, s, d) : v \in Values, s \in RegUnits, d \in StackSlots}
    \cup {Inst("RegFill", "Regfill", v, s, d) : v \in Values, s \in StackSlots, d \in RegUnits}
    \cup {Inst("Unary", o, v, 0, 0) : o \in OtherOpcodes, v \in Values}

\* Slip: the arms of RegSpill and RegFill call each other's method.
apply_swaps_spill_fill(cur, dbg, inst) ==
    IF inst.format = "RegMove" /\ inst.opcode = "Regmove"
    THEN divert(cur, dbg, inst.arg, Reg(inst.src), Reg(inst.dst))
    ELSE IF inst.format = "RegSpill" /\ inst.opcode = "Regspill"
    THEN divert(cur, dbg, inst.arg, Stack(inst.src), Reg(inst.dst))
    ELSE IF inst.format = "RegFill" /\ inst.opcode = "Regfill"
    THEN divert(cur, dbg, inst.arg, Reg(inst.src), Stack(inst.dst))
    ELSE Ok(cur, None)

\* Slip: the allocator's spill and fill instructions are taken for the end
\* of the value's diversion.
apply_drops_on_spill(cur, dbg, inst) ==
    IF inst.format = "RegMove" /\ inst.opcode = "Regmove"
    THEN regmove(cur, dbg, inst.arg, inst.src, inst.dst)
    ELSE IF inst.format = "RegSpill" /\ inst.opcode = "Regspill"
    THEN regspill(cur, dbg, inst.arg, inst.src, inst.dst)
    ELSE IF inst.format = "RegFill" /\ inst.opcode = "Regfill"
    THEN regfill(cur, dbg, inst.arg, inst.src, inst.dst)
    ELSE IF inst.opcode \in {"Spill", "Fill"} /\ position(cur, inst.arg) # 0
    THEN Ok(swap_remove(cur, position(cur, inst.arg)), None)
    ELSE Ok(cur, None)

\* RegDiversions::apply
apply(cur, dbg, inst) ==
    IF inst.format = "RegMove" /\ inst.opcode = "Regmove"
    THEN regmove(cur, dbg, inst.arg, inst.src, inst.dst)
    ELSE IF inst.format = "RegSpill" /\ inst.opcode = "Regspill"
    THEN regspill(cur, dbg, inst.arg, inst.src, inst.dst)
    ELSE IF inst.format = "RegFill" /\ inst.opcode = "Regfill"
    THEN regfill(cur, dbg, inst.arg, inst.src, inst.dst)
    ELSE Ok(cur, None)

\* Slip: remove returns the original location of the dropped record.
remove_returns_from(cur, value) ==
    LET i == position(cur, value) IN
    IF i # 0 THEN Ok(swap_remove(cur, i), Some(cur[i].from)) ELSE Ok(cur, None)

\* Slip: a value that is not found drops the last record
\* (position(..).unwrap_or(len - 1)).
remove_defaults_to_last(cur, value) ==
    LET p == position(cur, value)
        i == IF p # 0 THEN p ELSE Len(cur)
    IN  IF i # 0
        THEN Ok(swap_remove(cur, i), IF p # 0 THEN Some(cur[i].to) ELSE None)
        ELSE Ok(cur, None)

\* RegDiversions::remove
remove(cur, value) ==
    LET i == position(cur, value) IN
    IF i # 0 THEN Ok(swap_remove(cur, i), Some(cur[i].to)) ELSE Ok(cur, None)

\* ----------------------------------------------------------------- state
VARIABLES
    current,            \* RegDiversions.current
    debug_assertions,   \* cfg!(debug_assertions) of the build
    panicked,           \* a debug assertion failed; the pass is aborted
    op,                 \* the method that last reached the vector, and its value
    ret,                \* what that call returned
    chain,              \* per value: first from / last to of the move chain in progress
    broken,             \* the last divert named assigned locations and started away
                        \* from the assigned location the value was diverted to
    unassigned,         \* the last divert named a location that is not assigned
    assignments,        \* the allocator's assignment map handed to get, reg and stack
    moved,              \* from and to of the last divert
    returned,           \* the values whose record has been dropped at least once
    shadow              \* a second tracker, driven by direct calls

\* What only the specifications further down use.
aux == <<assignments, moved, returned, shadow>>

vars == <<current, debug_assertions, panicked, op, ret, chain, broken, unassigned, aux>>

NoChain == <<>>

\* regmove, regspill, regfill and apply on a diversion instruction reach the
\* vector through divert and are recorded as "divert", with the arm of
\* divert that ran; "apply" is an instruction that falls to the wildcard
\* arm of apply, with its opcode.
Call(name, detail, value) == [name |-> name, detail |-> detail, value |-> value]

\* The arm of divert that produced `res` from `cur`: the push of line 104,
\* the store of line 99, the swap_remove of line 101, or a failed assertion.
Arm(cur, res) ==
    IF res.panicked THEN "panic"
    ELSE IF Len(res.current) > Len(cur) THEN "push"
    ELSE IF Len(res.current) < Len(cur) THEN "remove"
    ELSE "update"

\* The move chain of `value` after an accepted divert(value, from, to) that
\* left the vector `after`: no chain once the value is not diverted any
\* more; the chain goes on when the move starts where the chain ended; a
\* new chain starts when the value was not diverted; a move that starts
\* anywhere else on a diverted value is no chain at all.
ChainAfterDivert(cur, after, ch, value, from, to) ==
    IF position(after, value) = 0
    THEN [ch EXCEPT ![value] = NoChain]
    ELSE IF ch[value] # NoChain /\ ch[value][2] = from
    THEN [ch EXCEPT ![value] = <<ch[value][1], to>>]
    ELSE IF position(cur, value) = 0
    THEN [ch EXCEPT ![value] = <<from, to>>]
    ELSE [ch EXCEPT ![value] = NoChain]

\* divert(value, from, to) is called while value is diverted to another
\* location than from, all locations involved being assigned ones.
BrokenChain(cur, value, from, to) ==
    /\ position(cur, value) # 0
    /\ cur[position(cur, value)].to # from
    /\ is_assigned(from) /\ is_assigned(to)
    /\ is_assigned(cur[position(cur, value)].from)
    /\ is_assigned(cur[position(cur, value)].to)

\* Option<&RegInfo> as display takes it: without register names, or with
\* the names of the target.
RegInfos == {"None", "Some"}

\* Display of ir::Value: "v" and the number.
DisplayValue(value) == <<"v", value>>

\* ValueLoc::display(regs): "-" when unassigned, "%" and the register as
\* `regs` lets it be named, "ss" and the number of the slot.
DisplayLoc(loc, regs) ==
    CASE loc.kind = "Unassigned" -> <<"-">>
      [] loc.kind = "Reg" -> <<"%", regs, loc.id>>
      [] loc.kind = "Stack" -> <<"ss", loc.id>>

\* One write! of the loop of DisplayDiversions::fmt.
DisplayEntry(div, regs) ==
    <<" ", DisplayValue(div.value), ": ", DisplayLoc(div.from, regs),
      " -> ", DisplayLoc(div.to, regs)>>

\* Slip: the loop runs over all() from the back (.iter().rev()).
display_reversed(cur, regs) ==
    Ok(cur, <<"{">>
            \o [i \in 1..Len(all(cur)) |-> DisplayEntry(all(cur)[Len(all(cur)) + 1 - i], regs)]
            \o <<" }">>)

\* RegDiversions::display and DisplayDiversions::fmt: the text, as the
\* sequence of pieces written.
display(cur, regs) ==
    Ok(cur, <<"{">>
            \o [i \in 1..Len(all(cur)) |-> DisplayEntry(all(cur)[i], regs)]
            \o <<" }">>)

\* ir::ValueLocations before any value is assigned: a SecondaryMap whose
\* default is Unassigned.
NoLocations == [v \in Values |-> Unassigned]

\* The state after RegDiversions::new, in either build.
InitTracker ==
    /\ current = new
    /\ debug_assertions \in BOOLEAN
    /\ panicked = FALSE
    /\ op = Call("new", "none", 0)
    /\ ret = None
    /\ chain = [v \in Values |-> NoChain]
    /\ broken = FALSE
    /\ unassigned = FALSE
    /\ moved = <<>>
    /\ returned = {}
    /\ shadow = Ok(new, None)

Init ==
    /\ InitTracker
    /\ assignments = NoLocations

\* What a call that ends in divert does to the tracker and its history.
DivertStep(res, value, from, to) ==
    /\ op' = Call("divert", Arm(current, res), value)
    /\ current' = res.current
    /\ panicked' = res.panicked
    /\ ret' = res.ret
    /\ chain' = IF res.panicked THEN chain
                ELSE ChainAfterDivert(current, res.current, chain, value, from, to)
    /\ broken' = BrokenChain(current, value, from, to)
    /\ unassigned' = ~(is_assigned(from) /\ is_assigned(to))
    /\ UNCHANGED debug_assertions

\* Common part of every entry point that ends in divert.
Diverted(res, value, from, to) ==
    /\ DivertStep(res, value, from, to)
    /\ UNCHANGED aux

\* What a call that does not divert does to the tracker and its history.
ReturnStep(res) ==
    /\ current' = res.current
    /\ panicked' = res.panicked
    /\ ret' = res.ret
    /\ broken' = FALSE
    /\ unassigned' = FALSE
    /\ UNCHANGED debug_assertions

\* Common part of the entry points that do not divert.
Returned(res) ==
    /\ ReturnStep(res)
    /\ UNCHANGED aux

CallDivert ==
    /\ ~panicked
    /\ \E value \in Values, from \in ValueLocs, to \in ValueLocs :
        Diverted(divert(current, debug_assertions, value, from, to), value, from, to)

CallRegmove ==
    /\ ~panicked
    /\ \E value \in Values, from \in RegUnits, to \in RegUnits :
        Diverted(regmove(current, debug_assertions, value, from, to),
                 value, Reg(from), Reg(to))

CallRegspill ==
    /\ ~panicked
    /\ \E value \in Values, from \in RegUnits, to \in StackSlots :
        Diverted(regspill(current, debug_assertions, value, from, to),
                 value, Reg(from), Stack(to))

CallRegfill ==
    /\ ~panicked
    /\ \E value \in Values, from \in StackSlots, to \in RegUnits :
        Diverted(regfill(current, debug_assertions, value, from, to),
                 value, Stack(from), Reg(to))

\* Source and destination of a decoded diversion instruction as locations.
InstFrom(inst) == IF inst.opcode = "Regfill" THEN Stack(inst.src) ELSE Reg(inst.src)

InstTo(inst) == IF inst.opcode = "Regspill" THEN Stack(inst.dst) ELSE Reg(inst.dst)

CallApply ==
    /\ ~panicked
    /\ \E inst \in Insts :
        IF inst.opcode \in DiversionOpcodes
        THEN Diverted(apply(current, debug_assertions, inst),
                      inst.arg, InstFrom(inst), InstTo(inst))
        ELSE /\ op' = Call("apply", inst.opcode, 0)
             /\ Returned(apply(current, debug_assertions, inst))
             /\ UNCHANGED chain

CallRemove ==
    /\ ~panicked
    /\ \E value \in Values :
        /\ op' = Call("remove", "none", value)
        /\ Returned(remove(current, value))
        /\ chain' = [chain EXCEPT ![value] = NoChain]

\* The detail of a clear: whether there was anything to discard.
Discarded(cur) == IF is_empty(cur) THEN "nothing" ELSE "discarded"

CallClear ==
    /\ ~panicked
    /\ op' = Call("clear", Discarded(current), 0)
    /\ Returned(clear(current))
    /\ chain' = [v \in Values |-> NoChain]

Next ==
    \/ CallDivert
    \/ CallRegmove
    \/ CallRegspill
    \/ CallRegfill
    \/ CallApply
    \/ CallRemove
    \/ CallClear

Spec == Init /\ [][Next]_vars

\* ---------------------------------------------------------------- claims
\* The records of `value` in all(), as indices.
RecordsOf(cur, value) == {i \in 1..Len(all(cur)) : all(cur)[i].value = value}

\* C1: in every reachable state no two records of all() share a value.
C1_OneRecordPerValue ==
    \A i, j \in 1..Len(all(current)) :
        i # j => all(current)[i].value # all(current)[j].value

\* C1: both values are diverted at once, the second record just folded a move.
C1_Witness ==
    /\ Len(current) = 2
    /\ op.name = "divert"
    /\ op.detail = "update"

\* C2: while a value's chain of contiguous moves is in progress, its record
\* goes from the first move's from to the latest move's to.
C2_ChainEnds ==
    \A v \in Values :
        (chain[v] # NoChain /\ diversion(current, v) # None) =>
            /\ diversion(current, v)[1].from = chain[v][1]
            /\ diversion(current, v)[1].to = chain[v][2]

\* C2: a later move of a chain has just been folded into the record.
C2_Witness ==
    /\ op.name = "divert"
    /\ op.detail = "update"
    /\ chain[op.value] # NoChain
    /\ chain[op.value][1] # chain[op.value][2]
    /\ diversion(current, op.value) = Some(DiversionNew(op.value, chain[op.value][1], chain[op.value][2]))

\* C3: a chain of moves on a value that ends at the assigned location where
\* it started leaves no diversion for the value (divert(v, a, b) followed
\* by divert(v, b, a) is the chain of two moves).
C3_RoundTripLeavesNothing ==
    \A v \in Values :
        (/\ chain[v] # NoChain
         /\ is_assigned(chain[v][1])
         /\ chain[v][1] = chain[v][2]) => diversion(current, v) = None

\* C4: every record made of assigned locations is a real relocation: its
\* from differs from its to.
C4_RealRelocation ==
    \A i \in 1..Len(all(current)) :
        (is_assigned(all(current)[i].from) /\ is_assigned(all(current)[i].to)) =>
            all(current)[i].from # all(current)[i].to

\* C5: for every value and every assignment map, get is the map's location
\* when all() holds no record of the value, and the to of the value's
\* record otherwise.
C5_GetResolves ==
    \A v \in Values, locations \in [Values -> ValueLocs] :
        IF RecordsOf(current, v) = {}
        THEN get(current, v, locations) = locations[v]
        ELSE \A i \in RecordsOf(current, v) :
                get(current, v, locations) = all(current)[i].to

\* C5: one value is diverted away from where a map assigns it while the
\* other value is not diverted.
C5_Witness ==
    \E v, w \in Values :
        /\ op.name = "divert"
        /\ diversion(current, v) # None
        /\ diversion(current, w) = None
        /\ diversion(current, v)[1].from # diversion(current, v)[1].to
        /\ \E locations \in [Values -> ValueLocs] :
              get(current, v, locations) # locations[v]

\* C6: remove(v) on a value diverted by a chain of moves returns the last
\* to of the chain, and no record of v is left.
C6_RemoveReturnsLastTo ==
    [][(/\ op'.name = "remove"
        /\ chain[op'.value] # NoChain
        /\ diversion(current, op'.value) # None)
       => (/\ ret' = Some(chain[op'.value][2])
           /\ diversion(current', op'.value) = None
           /\ RecordsOf(current', op'.value) = {})]_vars

\* C6: remove has just dropped the record of a diverted value.
C6_Witness ==
    /\ op.name = "remove"
    /\ ret # None
    /\ is_assigned(ret[1])
    /\ diversion(current, op.value) = None

\* C7: remove(v) on a value that is not diverted returns nothing, leaves
\* the vector as it was and does not fail.
C7_RemoveUntracked ==
    [][(op'.name = "remove" /\ diversion(current, op'.value) = None)
       => (ret' = None /\ current' = current /\ ~panicked')]_vars

\* C7: remove has just found nothing to drop while the other value is
\* diverted.
C7_Witness ==
    /\ op.name = "remove"
    /\ ret = None
    /\ ~is_empty(current)

\* C8: a divert or a remove of v leaves the record of every other value w
\* as it was, and w's record is still in all().
C8_OtherValuesUntouched ==
    [][(op'.name \in {"divert", "remove"})
       => \A w \in Values \ {op'.value} :
            /\ diversion(current', w) = diversion(current, w)
            /\ RecordsOf(current, w) # {} => RecordsOf(current', w) # {}]_vars

\* C8: a chain-closing divert has just dropped the record of one value
\* while the other value stays diverted.
C8_Witness ==
    /\ op.name = "divert"
    /\ op.detail = "remove"
    /\ \E w \in Values \ {op.value} : diversion(current, w) # None

\* C9: apply on an instruction that is no regmove, regspill or regfill
\* leaves the vector as it was and does not fail.
C9_ApplyOtherIsNoOp ==
    [][(op'.name = "apply" /\ op'.detail \notin DiversionOpcodes)
       => (current' = current /\ ~panicked')]_vars

\* C9: a spill instruction has just been applied to a tracker with two
\* diverted values.
C9_Witness ==
    /\ op.name = "apply"
    /\ op.detail = "Spill"
    /\ Len(current) = 2

\* C10 as stated: a divert that starts away from where the diverted value
\* is fails in every build, and the vector is left as it was.
C10_BrokenChainFatal ==
    [][broken' => (panicked' /\ current' = current)]_vars

\* C10 as amended: in a build with debug assertions, a divert that starts
\* away from where the diverted value is fails, and the vector is left as
\* it was.
C10_BrokenChainFatalInDebug ==
    [][(debug_assertions /\ broken') => (panicked' /\ current' = current)]_vars

\* C10: a divert that started away from where the diverted value is has
\* just failed an assertion, and the record is still there.
C10_Witness ==
    /\ debug_assertions
    /\ broken
    /\ panicked
    /\ op.detail = "panic"
    /\ ~is_empty(current)

\* Every record of the vector is made of assigned locations.
AllAssigned(cur) ==
    \A i \in 1..Len(all(cur)) :
        is_assigned(all(cur)[i].from) /\ is_assigned(all(cur)[i].to)

\* C11 as stated: a divert that names an unassigned location fails in every
\* build and leaves the vector as it was, so every record of every
\* reachable state is made of assigned locations.
C11_UnassignedFatal ==
    [][(unassigned' => (panicked' /\ current' = current))
       /\ AllAssigned(current')]_vars

\* C11 as amended: in a build with debug assertions, a divert that names an
\* unassigned location fails and leaves the vector as it was, whether or
\* not the value is diverted, and every record is made of assigned
\* locations.
C11_UnassignedFatalInDebug ==
    [][debug_assertions =>
        (/\ unassigned' => (panicked' /\ current' = current)
         /\ AllAssigned(current'))]_vars

\* C11: a divert that named an unassigned location has just failed while
\* its value is diverted.
C11_Witness ==
    /\ debug_assertions
    /\ unassigned
    /\ panicked
    /\ op.name = "divert"
    /\ diversion(current, op.value) # None

\* C13: clear does not fail and leaves nothing: is_empty, all() empty, no
\* diversion of any value, get answers from the assignment map; and the
\* divert of assigned locations that follows a clear is pushed as the first
\* move of a new chain, the only record of the vector.
C13_ClearDiscardsAll ==
    [][/\ op'.name = "clear" =>
            /\ ~panicked'
            /\ is_empty(current')
            /\ all(current') = <<>>
            /\ \A v \in Values :
                  /\ diversion(current', v) = None
                  /\ \A locs \in [Values -> ValueLocs] : get(current', v, locs) = locs[v]
       /\ (op.name = "clear" /\ op'.name = "divert" /\ ~unassigned') =>
            /\ ~panicked'
            /\ op'.detail = "push"
            /\ chain'[op'.value] # NoChain
            /\ all(current') = <<DiversionNew(op'.value, chain'[op'.value][1],
                                               chain'[op'.value][2])>>]_vars

\* C13: clear has just discarded the records of a tracker that had some.
C13_Witness ==
    /\ op.name = "clear"
    /\ op.detail = "discarded"
    /\ is_empty(current)

\* C14: is_empty is true exactly when no value has a diversion, exactly
\* when all() is empty; the tracker new returns is empty.
C14_EmptyIffNoneDiverted ==
    /\ is_empty(current) <=> (\A v \in Values : diversion(current, v) = None)
    /\ is_empty(current) <=> (Len(all(current)) = 0)
    /\ op.name = "new" => is_empty(current)

\* C14: the last record has just been dropped by a chain-closing divert,
\* and the tracker is empty again.
C14_Witness ==
    /\ op.name = "divert"
    /\ op.detail = "remove"
    /\ is_empty(current)

\* ------------------------------------------------- a pass over one block
\* The allocator has assigned every value a location; the pass moves a
\* value from where it currently lives, and asks the tracker where values
\* are.
InitPass ==
    /\ InitTracker
    /\ assignments \in [Values -> AssignedLocs]

\* The values whose record `after` has lost, added to `ret_set`.
Dropped(cur, after, ret_set) ==
    ret_set \cup {v \in Values : position(cur, v) # 0 /\ position(after, v) = 0}

\* divert(value, get(value, assignments), to)
PassDivert ==
    /\ ~panicked
    /\ \E value \in Values, to \in AssignedLocs :
        LET from == get(current, value, assignments)
            res == divert(current, debug_assertions, value, from, to)
        IN  /\ DivertStep(res, value, from, to)
            /\ returned' = Dropped(current, res.current, returned)
            /\ UNCHANGED <<assignments, moved, shadow>>

PassRemove ==
    /\ ~panicked
    /\ \E value \in Values :
        /\ op' = Call("remove", "none", value)
        /\ ReturnStep(remove(current, value))
        /\ chain' = [chain EXCEPT ![value] = NoChain]
        /\ returned' = Dropped(current, remove(current, value).current, returned)
        /\ UNCHANGED <<assignments, moved, shadow>>

PassClear ==
    /\ ~panicked
    /\ op' = Call("clear", Discarded(current), 0)
    /\ ReturnStep(clear(current))
    /\ chain' = [v \in Values |-> NoChain]
    /\ returned' = Dropped(current, clear(current).current, returned)
    /\ UNCHANGED <<assignments, moved, shadow>>

\* A call of a &self method: its outcome is all there is to it.
Query(name, value, res) ==
    /\ ~panicked
    /\ op' = Call(name, "none", value)
    /\ ReturnStep(res)
    /\ UNCHANGED <<chain, aux>>

QueryGet == \E value \in Values : Query("get", value, Ok(current, get(current, value, assignments)))

QueryReg == \E value \in Values : Query("reg", value, reg(current, value, assignments))

QueryStack == \E value \in Values : Query("stack", value, stack(current, value, assignments))

QueryIsEmpty == Query("is_empty", 0, Ok(current, is_empty(current)))

QueryDiversion ==
    \E value \in Values : Query("diversion", value, Ok(current, diversion(current, value)))

QueryAll == Query("all", 0, Ok(current, all(current)))

QueryDisplay ==
    \E regs \in RegInfos :
        /\ ~panicked
        /\ op' = Call("display", regs, 0)
        /\ ReturnStep(display(current, regs))
        /\ UNCHANGED <<chain, aux>>

NextPass ==
    \/ PassDivert
    \/ PassRemove
    \/ PassClear
    \/ QueryIsEmpty
    \/ QueryDiversion
    \/ QueryAll
    \/ QueryDisplay
    \/ QueryGet
    \/ QueryReg
    \/ QueryStack

SpecPass == InitPass /\ [][NextPass]_vars

\* C12: reg returns the register unit of get when get is a register and
\* panics when it is a stack slot; stack returns the slot of get when get is
\* a stack slot and panics when it is a register; neither touches the
\* vector.  Right after a value assigned to a register was moved to a stack
\* slot by the first move of a chain, stack returns that slot and reg panics.
C12_RegStackUnwrapGet ==
    [][/\ op'.name = "reg" =>
            LET loc == get(current, op'.value, assignments) IN
            /\ current' = current
            /\ loc.kind = "Reg" => (~panicked' /\ ret' = loc.id)
            /\ loc.kind = "Stack" => panicked'
       /\ op'.name = "stack" =>
            LET loc == get(current, op'.value, assignments) IN
            /\ current' = current
            /\ loc.kind = "Stack" => (~panicked' /\ ret' = loc.id)
            /\ loc.kind = "Reg" => panicked'
       /\ ( /\ op.name = "divert" /\ op.detail = "push"
            /\ op'.value = op.value
            /\ assignments[op.value].kind = "Reg"
            /\ chain[op.value] # NoChain
            /\ chain[op.value][2].kind = "Stack" ) =>
            /\ op'.name = "stack" => (~panicked' /\ ret' = chain[op.value][2].id)
            /\ op'.name = "reg" => panicked']_vars

\* C12: reg has panicked on a value whose assigned location is a register,
\* because the value is diverted to a stack slot.
C12_Witness ==
    /\ op.name = "reg"
    /\ panicked
    /\ assignments[op.value].kind = "Reg"
    /\ diversion(current, op.value) # None
    /\ diversion(current, op.value)[1].to.kind = "Stack"

\* ------------------------------------------- three values diverted at once
\* Register moves, remove and clear on one value more than elsewhere, so
\* that a record can be dropped in front of two that stay.  The history of
\* chains is not kept here.
OrderValues == Values \cup {3}

OrderStep(name, value, res) ==
    /\ ~panicked
    /\ op' = Call(name, Arm(current, res), value)
    /\ current' = res.current
    /\ panicked' = res.panicked
    /\ ret' = res.ret
    /\ UNCHANGED <<debug_assertions, chain, broken, unassigned, aux>>

OrderRegmove ==
    \E value \in OrderValues, from \in RegUnits, to \in RegUnits :
        OrderStep("divert", value, regmove(current, debug_assertions, value, from, to))

OrderRemove ==
    \E value \in OrderValues : OrderStep("remove", value, remove(current, value))

OrderClear == OrderStep("clear", 0, clear(current))

NextOrder ==
    \/ OrderRegmove
    \/ OrderRemove
    \/ OrderClear

SpecOrder == Init /\ [][NextOrder]_vars

\* C15 as stated: two records that are in all() before and after a step
\* keep their relative order.
C15_OrderStable ==
    [][\A v, w \in OrderValues :
         ( /\ position(current, v) # 0 /\ position(current, w) # 0
           /\ position(current', v) # 0 /\ position(current', w) # 0
           /\ position(current, v) < position(current, w) ) =>
         position(current', v) < position(current', w)]_vars

\* C15, amended: a record that stays in all() keeps its index, except that
\* when a step drops one record the last record takes the index of the
\* dropped one.  So push and update never reorder, and a drop reorders only
\* by moving the last record forward.
C15_OnlyLastMoves ==
    [][\A v \in OrderValues :
         (position(current, v) # 0 /\ position(current', v) # 0) =>
         \/ position(current', v) = position(current, v)
         \/ /\ Len(current') = Len(current) - 1
            /\ position(current, v) = Len(current)
            /\ \E w \in OrderValues :
                  /\ position(current', w) = 0
                  /\ position(current, w) = position(current', v)]_vars

\* C15: a record has just been dropped from the front of three; the record
\* that was last is first now, ahead of the one that was second.
C15_Witness ==
    /\ op.detail = "remove"
    /\ Len(current) = 2
    /\ position(current, op.value) = 0
    /\ op.value < current[2].value
    /\ current[2].value < current[1].value

\* C16: in a pass that moves every value from where get says it lives, the
\* from of every record is the assigned location of its value, also when the
\* value was diverted again after its record was dropped, and a record that
\* stays keeps its from.
C16_FromIsAssigned ==
    [][/\ \A i \in 1..Len(all(current')) :
            all(current')[i].from = assignments[all(current')[i].value]
       /\ \A v \in Values :
            (diversion(current, v) # None /\ diversion(current', v) # None) =>
            diversion(current', v)[1].from = diversion(current, v)[1].from]_vars

\* C16: a value whose record was dropped before is diverted again, and a
\* second move has been folded into its new record.
C16_Witness ==
    /\ op.name = "divert"
    /\ op.detail = "update"
    /\ op.value \in returned
    /\ diversion(current, op.value) # None
    /\ diversion(current, op.value)[1].to # assignments[op.value]

\* ------------------------------------ apply against the calls it stands for
\* Two trackers of the same build: `current` is driven by apply on an
\* instruction, `shadow` by the call the instruction stands for, made
\* either through regmove, regspill or regfill or through divert itself.
Direct(cur, dbg, inst) ==
    CASE inst.opcode = "Regmove" -> regmove(cur, dbg, inst.arg, inst.src, inst.dst)
      [] inst.opcode = "Regspill" -> regspill(cur, dbg, inst.arg, inst.src, inst.dst)
      [] inst.opcode = "Regfill" -> regfill(cur, dbg, inst.arg, inst.src, inst.dst)

ByDivert(cur, dbg, inst) == divert(cur, dbg, inst.arg, InstFrom(inst), InstTo(inst))

\* One step of both trackers; a tracker that has panicked is not called again.
BothStep(how, inst, res, sh) ==
    /\ ~panicked /\ ~shadow.panicked
    /\ op' = Call(how, inst.opcode, inst.arg)
    /\ current' = res.current
    /\ panicked' = res.panicked
    /\ ret' = res.ret
    /\ shadow' = sh
    /\ UNCHANGED <<debug_assertions, chain, broken, unassigned, assignments, moved, returned>>

ApplyAndDirect ==
    \E inst \in Insts :
        /\ inst.opcode \in DiversionOpcodes
        /\ BothStep("direct", inst, apply(current, debug_assertions, inst),
                    Direct(shadow.current, debug_assertions, inst))

ApplyAndDivert ==
    \E inst \in Insts :
        /\ inst.opcode \in DiversionOpcodes
        /\ BothStep("divert", inst, apply(current, debug_assertions, inst),
                    ByDivert(shadow.current, debug_assertions, inst))

\* An instruction that is no diversion: no call is made on the shadow.
ApplyAlone ==
    \E inst \in Insts :
        /\ inst.opcode \in OtherOpcodes
        /\ BothStep("apply", inst, apply(current, debug_assertions, inst), shadow)

NextApply ==
    \/ ApplyAndDirect
    \/ ApplyAndDivert
    \/ ApplyAlone

SpecApply == Init /\ [][NextApply]_vars

\* C17: after every step the tracker driven by apply and the tracker driven
\* by the direct calls hold the same records in the same order, and one has
\* panicked exactly when the other has, so they fail on the same step.
C17_ApplyIsDirectCall ==
    /\ current = shadow.current
    /\ panicked = shadow.panicked
    /\ ret = shadow.ret

\* C17: a fill instruction has been applied to a value whose record says it
\* is in the stack slot; both trackers folded it, another value is diverted.
C17_Witness ==
    /\ op.detail = "Regfill"
    /\ ~panicked
    /\ Len(current) = 2
    /\ diversion(current, op.value) # None
    /\ diversion(shadow.current, op.value) # None
    /\ diversion(current, op.value)[1].from.kind = "Reg"
    /\ diversion(shadow.current, op.value)[1].to.kind = "Reg"

\* --------------------------------------------- episodes of one value
\* Moves between assigned locations, remove and clear, with the move that
\* was asked for last and the values that have been back to not diverted.
\* The history of chains is not kept here.
CycleStep(name, value, res, mv) ==
    /\ ~panicked
    /\ op' = Call(name, Arm(current, res), value)
    /\ current' = res.current
    /\ panicked' = res.panicked
    /\ ret' = res.ret
    /\ moved' = mv
    /\ returned' = Dropped(current, res.current, returned)
    /\ UNCHANGED <<debug_assertions, chain, broken, unassigned, assignments, shadow>>

CycleDivert ==
    \E value \in Values, from \in AssignedLocs, to \in AssignedLocs :
        CycleStep("divert", value, divert(current, debug_assertions, value, from, to),
                  <<from, to>>)

CycleRemove ==
    \E value \in Values : CycleStep("remove", value, remove(current, value), <<>>)

CycleClear == CycleStep("clear", 0, clear(current), <<>>)

NextCycle ==
    \/ CycleDivert
    \/ CycleRemove
    \/ CycleClear

SpecCycle == Init /\ [][NextCycle]_vars

\* C18: a divert(v, x, y) of assigned locations on a value that is not
\* diverted, whatever happened to v before, does not fail and appends the
\* record {v, x, y}; and a value that is diverted before a step and not
\* after it has been cleared, removed by remove(v), or moved by a divert of
\* v whose to is the from of its record.
C18_NotDivertedReenterable ==
    [][/\ (op'.name = "divert" /\ position(current, op'.value) = 0) =>
            /\ ~panicked'
            /\ current' = Append(current, DiversionNew(op'.value, moved'[1], moved'[2]))
       /\ \A v \in Values :
            (position(current, v) # 0 /\ position(current', v) = 0) =>
            \/ op'.name = "clear"
            \/ op'.name = "remove" /\ op'.value = v
            \/ /\ op'.name = "divert" /\ op'.value = v
               /\ moved'[2] = current[position(current, v)].from]_vars

\* C18: a value that has been back to not diverted has just been diverted
\* again; its record is the move that was asked for.
C18_Witness ==
    /\ op.name = "divert"
    /\ op.detail = "push"
    /\ op.value \in returned
    /\ diversion(current, op.value) = Some(DiversionNew(op.value, moved[1], moved[2]))

\* The &self methods, as op names them.
QueryNames == {"is_empty", "diversion", "all", "get", "reg", "stack", "display"}

\* What a displayed location reads back as.
ReadLoc(text) ==
    CASE text[1] = "-" -> Unassigned
      [] text[1] = "%" -> Reg(text[3])
      [] text[1] = "ss" -> Stack(text[2])

\* The records a displayed text lists between its braces, in its order.
ReadEntries(text) ==
    [i \in 1..(Len(text) - 2) |->
        [value |-> text[i + 1][2][2],
         from |-> ReadLoc(text[i + 1][4]),
         to |-> ReadLoc(text[i + 1][6])]]

\* C19: a call of is_empty, diversion, all, get, reg, stack or display, a
\* reg or stack that panics included, leaves the vector as it was; and what
\* display returns opens with "{", closes with " }" and lists between them
\* the records of the vector, all of them and in the vector's order.
C19_QueriesReadOnly ==
    [][op'.name \in QueryNames =>
        /\ current' = current
        /\ op'.name = "display" =>
            /\ ~panicked'
            /\ Len(ret') = Len(current) + 2
            /\ ret'[1] = "{"
            /\ ret'[Len(ret')] = " }"
            /\ ReadEntries(ret') = current]_vars

\* C19: display has been called on a tracker with two records.
C19_Witness ==
    /\ op.name = "display"
    /\ Len(current) = 2
    /\ Len(ret) = 4

\* The records of a vector, as a set.
RecordSet(cur) == {cur[i] : i \in 1..Len(cur)}

\* C20: in every reachable state, for every value v and assigned a, b such
\* that v is not diverted or is diverted to a, divert(v, a, b) followed by
\* divert(v, b, a) does not fail and leaves the set of records as it was.
C20_ThereAndBack ==
    \A v \in Values, a \in AssignedLocs, b \in AssignedLocs :
        (diversion(current, v) = None \/ diversion(current, v)[1].to = a) =>
        LET there == divert(current, debug_assertions, v, a, b)
            back == divert(there.current, debug_assertions, v, b, a)
        IN  /\ ~there.panicked
            /\ ~back.panicked
            /\ RecordSet(back.current) = RecordSet(current)
====
